---- MODULE Spec2Model ----
(***************************************************************************)
(* E-commerce admin API (src/main.py): the Category, Product, Inventory    *)
(* and Sale tables and the request handlers that write them.               *)
(*                                                                         *)
(* Spec      requests run one at a time, each handler as one action.       *)
(* SpecConc  two requests interleave at their queries and commits          *)
(*           (PostgreSQL READ COMMITTED, the engine's default).            *)
(*                                                                         *)
(* A row's id is its index in the table's sequence.  An Optional[int]      *)
(* field is <<>> when the request leaves it out and <<v>> otherwise.       *)
(* Float columns (price, unit_price, total_amount) are integer amounts.    *)
(* Every db.commit() may raise (store failure, out-of-range integer):      *)
(* the handler then ends with status 500 and its open transaction is       *)
(* rolled back; commits that already happened stay.                        *)
(***************************************************************************)
EXTENDS Integers, Sequences, FiniteSets, TLC

VARIABLES categories, products, inventory, sales, resp, reqs

vars == <<categories, products, inventory, sales, resp, reqs>>
tables == <<categories, products, inventory, sales>>

\* ---------------------------------------------------------------- bounds
MaxProducts == 2
MaxSales == 2

\* ---------------------------------------------------------------- inputs
CategoryNames == {"Electronics"}
Skus == {"X-1", "X-2"}
CategoryIds == {1, 2}
ProductIds == {1, 2}
StockInputs == {<<>>, <<-1>>, <<3>>}
ThresholdInputs == {<<>>, <<20>>}
QuantityInputs == {-1, 2}
SaleQuantities == {-1, 1}
UnitPrices == {5}
Platforms == {"Amazon"}
SaleDates == {[d |-> 19800, s |-> 0]}

\* ------------------------------------------------------- schema defaults
\* ProductCreate.initial_stock: Optional[int] = 0 ; Inventory.quantity default=0
DefaultInitialStock == 0
\* ProductCreate.low_stock_threshold: Optional[int] = 10 ; Column default=10
DefaultLowStockThreshold == 10

OrDefault(opt, dflt) == IF opt = <<>> THEN dflt ELSE opt[1]

NoRequest == [op |-> "none", status |-> 0]

\* ---------------------------------------------------------------- queries
\* a category lookup that finds a row for every id
CategoryByIdAny(cats, category_id) == TRUE

\* db.query(Category).filter(Category.id == category_id).first()
CategoryById(cats, category_id) == category_id \in 1..Len(cats)

\* an sku lookup that never finds a row
ProductBySkuNone(prods, sku) == FALSE

\* db.query(Product).filter(Product.sku == sku).first()
ProductBySku(prods, sku) == \E i \in 1..Len(prods) : prods[i].sku = sku

\* a product lookup that finds a row for every id
ProductByIdAny(prods, product_id) == TRUE

\* db.query(Product).filter(Product.id == product_id).first()
ProductById(prods, product_id) == product_id \in 1..Len(prods)

\* rows of db.query(Inventory).filter(Inventory.product_id == product_id)
InventoryRows(inv, product_id) == {i \in 1..Len(inv) : inv[i].product_id = product_id}

\* .first() of the above: the row with the least id (0 when there is none)
InventoryFirst(inv, product_id) ==
    IF InventoryRows(inv, product_id) = {} THEN 0
    ELSE CHOOSE i \in InventoryRows(inv, product_id) :
             \A j \in InventoryRows(inv, product_id) : i <= j

\* ------------------------------------------------------ table constraints
\* categories.name is unique
CategoryInsertable(cats, name) == \A i \in 1..Len(cats) : cats[i] # name

\* the products constraints without the unique index on sku
ProductInsertableNoUnique(cats, prods, row) ==
    CategoryById(cats, row.category_id)

\* products.sku is unique, products.category_id references categories.id
ProductInsertable(cats, prods, row) ==
    /\ ~ProductBySku(prods, row.sku)
    /\ CategoryById(cats, row.category_id)

\* inventory.product_id is unique and references products.id
InventoryInsertable(prods, inv, row) ==
    /\ InventoryRows(inv, row.product_id) = {}
    /\ ProductById(prods, row.product_id)

\* -------------------------------------------------------- create_category
create_category(name, commitOK) ==
    /\ IF commitOK /\ CategoryInsertable(categories, name)
       THEN /\ categories' = Append(categories, name)
            /\ resp' = [op |-> "create_category", status |-> 200,
                        id |-> Len(categories) + 1]
       ELSE /\ categories' = categories
            /\ resp' = [op |-> "create_category", status |-> 500, id |-> 0]
    /\ UNCHANGED <<products, inventory, sales, reqs>>

\* --------------------------------------------------------- create_product
\* Product(**product_data) after initial_stock and low_stock_threshold are popped
ProductRow(product) ==
    [sku |-> product.sku, category_id |-> product.category_id,
     platform |-> product.platform]

\* an Inventory row that takes the column defaults whatever the request says
InventoryRowDefaults(product_id, product) ==
    [product_id |-> product_id, quantity |-> DefaultInitialStock,
     low_stock_threshold |-> DefaultLowStockThreshold]

\* Inventory(product_id=db_product.id, quantity=initial_stock,
\*           low_stock_threshold=low_stock_threshold)
InventoryRow(product_id, product) ==
    [product_id |-> product_id,
     quantity |-> OrDefault(product.initial_stock, DefaultInitialStock),
     low_stock_threshold |->
         OrDefault(product.low_stock_threshold, DefaultLowStockThreshold)]

\* db.add(db_product); db.commit()
CommitProduct(cats, prods, product, commitOK) ==
    IF commitOK /\ ProductInsertable(cats, prods, ProductRow(product))
    THEN [ok |-> TRUE, products |-> Append(prods, ProductRow(product)),
          id |-> Len(prods) + 1]
    ELSE [ok |-> FALSE, products |-> prods, id |-> 0]

\* db.add(db_inventory); db.commit()
CommitInventory(prods, inv, product_id, product, commitOK) ==
    IF commitOK /\ InventoryInsertable(prods, inv, InventoryRow(product_id, product))
    THEN [ok |-> TRUE, inventory |-> Append(inv, InventoryRow(product_id, product))]
    ELSE [ok |-> FALSE, inventory |-> inv]

create_product(product, commitOK1, commitOK2) ==
    /\ Len(products) < MaxProducts
    /\ UNCHANGED <<categories, sales, reqs>>
    /\ IF ~CategoryById(categories, product.category_id)
       THEN /\ resp' = [op |-> "create_product", status |-> 404,
                        req |-> product, id |-> 0]
            /\ UNCHANGED <<products, inventory>>
       ELSE IF ProductBySku(products, product.sku)
       THEN /\ resp' = [op |-> "create_product", status |-> 400,
                        req |-> product, id |-> 0]
            /\ UNCHANGED <<products, inventory>>
       ELSE LET p == CommitProduct(categories, products, product, commitOK1)
                i == CommitInventory(p.products, inventory, p.id, product, commitOK2)
            IN  /\ products' = p.products
                /\ inventory' = IF p.ok THEN i.inventory ELSE inventory
                /\ resp' = [op |-> "create_product",
                            status |-> IF p.ok /\ i.ok THEN 200 ELSE 500,
                            req |-> product, id |-> p.id]

\* ------------------------------------------------------- update_inventory
\* an update that adds the quantity to the stored one
UpdatedRowIncrement(row, inventory_update) ==
    [row EXCEPT !.quantity = @ + inventory_update.quantity,
                !.low_stock_threshold =
                    OrDefault(inventory_update.low_stock_threshold, @)]

\* inventory.quantity = inventory_update.quantity
\* if inventory_update.low_stock_threshold is not None: ...
UpdatedRow(row, inventory_update) ==
    [row EXCEPT !.quantity = inventory_update.quantity,
                !.low_stock_threshold =
                    OrDefault(inventory_update.low_stock_threshold, @)]

\* db.commit() of a loaded Inventory row: the UPDATE sets the columns whose
\* value differs from the loaded one and leaves the others as stored
FlushRow(inv, r, loaded, new) ==
    IF r = 0 THEN inv
    ELSE [inv EXCEPT
            ![r].quantity = IF new.quantity # loaded.quantity
                            THEN new.quantity ELSE @,
            ![r].low_stock_threshold =
                IF new.low_stock_threshold # loaded.low_stock_threshold
                THEN new.low_stock_threshold ELSE @]

update_inventory(product_id, inventory_update, commitOK) ==
    /\ UNCHANGED <<categories, products, sales, reqs>>
    /\ LET r == InventoryFirst(inventory, product_id)
       IN  IF r = 0
           THEN /\ resp' = [op |-> "update_inventory", status |-> 404,
                            product_id |-> product_id, req |-> inventory_update]
                /\ inventory' = inventory
           ELSE /\ inventory' =
                       IF commitOK
                       THEN FlushRow(inventory, r, inventory[r],
                                     UpdatedRow(inventory[r], inventory_update))
                       ELSE inventory
                /\ resp' = [op |-> "update_inventory",
                            status |-> IF commitOK THEN 200 ELSE 500,
                            product_id |-> product_id, req |-> inventory_update]

\* ------------------------------------------------------------ create_sale
\* a Sale whose total_amount leaves the quantity out
SaleRowUnitTotal(sale) ==
    [product_id |-> sale.product_id, quantity |-> sale.quantity,
     unit_price |-> sale.unit_price, total_amount |-> sale.unit_price,
     sale_date |-> sale.sale_date, platform |-> sale.platform]

\* total_amount = sale.quantity * sale.unit_price ; Sale(...)
SaleRow(sale) ==
    [product_id |-> sale.product_id, quantity |-> sale.quantity,
     unit_price |-> sale.unit_price,
     total_amount |-> sale.quantity * sale.unit_price,
     sale_date |-> sale.sale_date, platform |-> sale.platform]

\* the decrement without the floor at zero
DecrementUnclamped(quantity, sold) == quantity - sold

\* inventory.quantity -= sale.quantity ; if inventory.quantity < 0: inventory.quantity = 0
Decrement(quantity, sold) ==
    IF quantity - sold < 0 THEN 0 ELSE quantity - sold

SoldRow(row, sale) ==
    [row EXCEPT !.quantity = Decrement(@, sale.quantity)]

create_sale(sale, commitOK) ==
    /\ Len(sales) < MaxSales
    /\ UNCHANGED <<categories, products, reqs>>
    /\ IF ~ProductById(products, sale.product_id)
       THEN /\ resp' = [op |-> "create_sale", status |-> 404, req |-> sale, id |-> 0]
            /\ UNCHANGED <<sales, inventory>>
       ELSE LET r == InventoryFirst(inventory, sale.product_id)
            IN  IF commitOK
                THEN /\ sales' = Append(sales, SaleRow(sale))
                     /\ inventory' =
                            IF r = 0 THEN inventory
                            ELSE FlushRow(inventory, r, inventory[r],
                                     SoldRow(inventory[r], sale))
                     /\ resp' = [op |-> "create_sale", status |-> 200,
                                 req |-> sale, id |-> Len(sales) + 1]
                ELSE /\ UNCHANGED <<sales, inventory>>
                     /\ resp' = [op |-> "create_sale", status |-> 500,
                                 req |-> sale, id |-> 0]

\* ---------------------------------------------------------- specification
ProductCreates ==
    [sku : Skus, category_id : CategoryIds, platform : Platforms,
     initial_stock : StockInputs, low_stock_threshold : ThresholdInputs]

InventoryUpdates ==
    [quantity : QuantityInputs, low_stock_threshold : ThresholdInputs]

SaleCreates ==
    [product_id : ProductIds, quantity : SaleQuantities, unit_price : UnitPrices,
     sale_date : SaleDates, platform : Platforms]

Init ==
    /\ categories = <<>>
    /\ products = <<>>
    /\ inventory = <<>>
    /\ sales = <<>>
    /\ resp = NoRequest
    /\ reqs = <<>>

Next ==
    \/ \E name \in CategoryNames, ok \in BOOLEAN : create_category(name, ok)
    \/ \E product \in ProductCreates, ok1, ok2 \in BOOLEAN :
           create_product(product, ok1, ok2)
    \/ \E product_id \in ProductIds, u \in InventoryUpdates, ok \in BOOLEAN :
           update_inventory(product_id, u, ok)
    \/ \E sale \in SaleCreates, ok \in BOOLEAN : create_sale(sale, ok)

Spec == Init /\ [][Next]_vars

\* ------------------------------------------------- interleaved requests
\* Each request of reqs runs one handler in steps, one step per query or
\* commit; what a request loaded stays in its session until it commits.
NumReq == 2
InitStock == 2

Idle == [op |-> "none", pc |-> "idle", status |-> 0]

Done(q, status, detail) == [q EXCEPT !.pc = "done", !.status = status, !.detail = detail]

\* create_product up to the two existence checks (lines 210-217)
cp_check(i, product) ==
    /\ reqs[i].pc = "idle"
    /\ LET q == [op |-> "create_product", pc |-> "add_product", status |-> 0,
                 req |-> product, id |-> 0, detail |-> ""]
       IN  reqs' = [reqs EXCEPT ![i] =
               IF ~CategoryById(categories, product.category_id)
               THEN Done(q, 404, "Category not found")
               ELSE IF ProductBySku(products, product.sku)
               THEN Done(q, 400, "SKU already exists")
               ELSE q]
    /\ UNCHANGED <<tables, resp>>

\* db.add(db_product); db.commit(); db.refresh(db_product) (lines 224-227)
cp_commit_product(i, commitOK) ==
    /\ reqs[i].op = "create_product" /\ reqs[i].pc = "add_product"
    /\ LET p == CommitProduct(categories, products, reqs[i].req, commitOK)
       IN  /\ products' = p.products
           /\ reqs' = [reqs EXCEPT ![i] =
                  IF p.ok THEN [@ EXCEPT !.pc = "add_inventory", !.id = p.id]
                  ELSE Done(@, 500,
                            IF commitOK THEN "IntegrityError" ELSE "commit failed")]
    /\ UNCHANGED <<categories, inventory, sales, resp>>

\* db.add(db_inventory); db.commit() (lines 230-238)
cp_commit_inventory(i, commitOK) ==
    /\ reqs[i].op = "create_product" /\ reqs[i].pc = "add_inventory"
    /\ LET v == CommitInventory(products, inventory, reqs[i].id, reqs[i].req, commitOK)
       IN  /\ inventory' = v.inventory
           /\ reqs' = [reqs EXCEPT ![i] =
                  IF v.ok THEN Done(@, 200, "")
                  ELSE Done(@, 500,
                            IF commitOK THEN "IntegrityError" ELSE "commit failed")]
    /\ UNCHANGED <<categories, products, sales, resp>>

\* update_inventory up to the assignments (lines 290-296)
ui_read(i, product_id, inventory_update) ==
    /\ reqs[i].pc = "idle"
    /\ LET r == InventoryFirst(inventory, product_id)
           q == [op |-> "update_inventory", pc |-> "commit", status |-> 0,
                 product_id |-> product_id, req |-> inventory_update,
                 row |-> r, loaded |-> IF r = 0 THEN <<>> ELSE <<inventory[r]>>,
                 detail |-> ""]
       IN  reqs' = [reqs EXCEPT ![i] =
               IF r = 0 THEN Done(q, 404, "Inventory not found") ELSE q]
    /\ UNCHANGED <<tables, resp>>

\* db.commit() of update_inventory (line 298)
ui_commit(i, commitOK) ==
    /\ reqs[i].op = "update_inventory" /\ reqs[i].pc = "commit"
    /\ inventory' =
           IF commitOK
           THEN FlushRow(inventory, reqs[i].row, reqs[i].loaded[1],
                         UpdatedRow(reqs[i].loaded[1], reqs[i].req))
           ELSE inventory
    /\ reqs' = [reqs EXCEPT ![i] =
           Done(@, IF commitOK THEN 200 ELSE 500,
                IF commitOK THEN "" ELSE "commit failed")]
    /\ UNCHANGED <<categories, products, sales, resp>>

\* create_sale up to the clamped assignment (lines 308-333)
cs_read(i, sale) ==
    /\ reqs[i].pc = "idle"
    /\ LET r == InventoryFirst(inventory, sale.product_id)
           q == [op |-> "create_sale", pc |-> "commit", status |-> 0,
                 req |-> sale, row |-> r,
                 loaded |-> IF r = 0 THEN <<>> ELSE <<inventory[r]>>,
                 detail |-> ""]
       IN  reqs' = [reqs EXCEPT ![i] =
               IF ~ProductById(products, sale.product_id)
               THEN Done(q, 404, "Product not found") ELSE q]
    /\ UNCHANGED <<tables, resp>>

\* db.commit() of create_sale: the INSERT and the UPDATE in one transaction
cs_commit(i, commitOK) ==
    /\ reqs[i].op = "create_sale" /\ reqs[i].pc = "commit"
    /\ IF commitOK
       THEN /\ sales' = Append(sales, SaleRow(reqs[i].req))
            /\ inventory' =
                   IF reqs[i].row = 0 THEN inventory
                   ELSE FlushRow(inventory, reqs[i].row, reqs[i].loaded[1],
                                 SoldRow(reqs[i].loaded[1], reqs[i].req))
       ELSE UNCHANGED <<sales, inventory>>
    /\ reqs' = [reqs EXCEPT ![i] =
           Done(@, IF commitOK THEN 200 ELSE 500,
                IF commitOK THEN "" ELSE "commit failed")]
    /\ UNCHANGED <<categories, products, resp>>

\* the tables after create_category and one create_product have succeeded
InitConc ==
    /\ categories = <<"Electronics">>
    /\ products = <<[sku |-> "X-1", category_id |-> 1, platform |-> "Amazon"]>>
    /\ inventory = <<[product_id |-> 1, quantity |-> InitStock,
                      low_stock_threshold |-> DefaultLowStockThreshold]>>
    /\ sales = <<>>
    /\ resp = NoRequest
    /\ reqs = [i \in 1..NumReq |-> Idle]

NextConc ==
    \E i \in 1..NumReq :
        \/ \E product \in ProductCreates : cp_check(i, product)
        \/ \E ok \in BOOLEAN : cp_commit_product(i, ok)
        \/ \E ok \in BOOLEAN : cp_commit_inventory(i, ok)
        \/ \E product_id \in ProductIds, u \in InventoryUpdates :
               ui_read(i, product_id, u)
        \/ \E ok \in BOOLEAN : ui_commit(i, ok)
        \/ \E sale \in SaleCreates : cs_read(i, sale)
        \/ \E ok \in BOOLEAN : cs_commit(i, ok)

SpecConc == InitConc /\ [][NextConc]_vars

\* ------------------------------------------------------ calendar (datetime)
\* A date is its day number, 0 = 1970-01-01; a datetime is [d |-> date,
\* s |-> second of the day].

\* date.year, date.month, date.day
Civil(date) ==
    LET z == date + 719468
        era == z \div 146097
        doe == z - era * 146097
        yoe == (doe - doe \div 1460 + doe \div 36524 - doe \div 146096) \div 365
        doy == doe - (365 * yoe + yoe \div 4 - yoe \div 100)
        mp == (5 * doy + 2) \div 153
        m == IF mp < 10 THEN mp + 3 ELSE mp - 9
    IN  [year |-> yoe + era * 400 + (IF m <= 2 THEN 1 ELSE 0),
         month |-> m,
         day |-> doy - (153 * mp + 2) \div 5 + 1]

\* date(year, month, day)
DateOf(year, month, day) ==
    LET y == IF month <= 2 THEN year - 1 ELSE year
        era == y \div 400
        yoe == y - era * 400
        mp == IF month > 2 THEN month - 3 ELSE month + 9
        doy == (153 * mp + 2) \div 5 + day - 1
        doe == yoe * 365 + yoe \div 4 - yoe \div 100 + doy
    IN  era * 146097 + doe - 719468

\* date.weekday(): Monday is 0
Weekday(date) == (date + 3) % 7

\* datetime <= datetime
DtLeq(a, b) == a.d < b.d \/ (a.d = b.d /\ a.s <= b.s)

\* datetime.combine(date_key, datetime.min.time())
StartOfDay(date) == [d |-> date, s |-> 0]

\* ---------------------------------------------------- get_revenue_analysis
Periods == {"daily", "weekly", "monthly", "annual"}

\* if not start_date: start_date = datetime.utcnow() - timedelta(days=30)
StartOrDefault(start_date, now) ==
    IF start_date = <<>> THEN [d |-> now.d - 30, s |-> now.s] ELSE start_date[1]

\* if not end_date: end_date = datetime.utcnow()
EndOrDefault(end_date, now) ==
    IF end_date = <<>> THEN now ELSE end_date[1]

\* db.query(Sale).join(Product).filter(...) of lines 381-389, in id order;
\* "if category_id:" and "if platform:" take the filter only when the value
\* is truthy: None, 0 and "" leave the query unfiltered
RevenueQuery(prods, rows, start, end, category_id, platform) ==
    SelectSeq(rows, LAMBDA sale :
        /\ ProductById(prods, sale.product_id)
        /\ DtLeq(start, sale.sale_date) /\ DtLeq(sale.sale_date, end)
        /\ category_id # <<>> /\ category_id[1] # 0 =>
               prods[sale.product_id].category_id = category_id[1]
        /\ platform # <<>> /\ platform[1] # "" =>
               sale.platform = platform[1])

\* grouping keys whose week starts on Sunday
BucketKeySunday(period, sale_date) ==
    CASE period = "daily" -> sale_date.d
      [] period = "weekly" -> sale_date.d - ((Weekday(sale_date.d) + 1) % 7)
      [] period = "monthly" ->
             DateOf(Civil(sale_date.d).year, Civil(sale_date.d).month, 1)
      [] OTHER -> DateOf(Civil(sale_date.d).year, 1, 1)

\* the grouping key of a sale (lines 395-402)
BucketKey(period, sale_date) ==
    CASE period = "daily" -> sale_date.d
      [] period = "weekly" -> sale_date.d - Weekday(sale_date.d)
      [] period = "monthly" ->
             DateOf(Civil(sale_date.d).year, Civil(sale_date.d).month, 1)
      [] OTHER -> DateOf(Civil(sale_date.d).year, 1, 1)

\* grouped_sales[key] is created on first use and accumulated (lines 404-413);
\* the dict keeps its keys in order of first insertion
Accumulate(grouped, key, sale) ==
    LET at == {i \in 1..Len(grouped) : grouped[i].key = key}
        g == IF at = {}
             THEN Append(grouped, [key |-> key, total_revenue |-> 0,
                                   total_sales |-> 0, sales_count |-> 0])
             ELSE grouped
        i == IF at = {} THEN Len(g) ELSE CHOOSE j \in at : TRUE
    IN  [g EXCEPT ![i].total_revenue = @ + sale.total_amount,
                  ![i].total_sales = @ + sale.quantity,
                  ![i].sales_count = @ + 1]

RECURSIVE GroupSales(_, _, _)
GroupSales(rows, period, grouped) ==
    IF rows = <<>> THEN grouped
    ELSE GroupSales(Tail(rows), period,
             Accumulate(grouped,
                        BucketKey(period, Head(rows).sale_date), Head(rows)))

\* period_end (lines 420-428).  For monthly, date_key is a date, so
\* .replace(hour=23, ...) raises TypeError.  For annual, date - timedelta
\* (seconds=1) drops the seconds and stays the date January 1st of the next
\* year, which the response model reads as that day at 00:00:00.
PeriodEnd(period, date_key) ==
    CASE period = "daily" -> [ok |-> TRUE, at |-> [d |-> date_key, s |-> 86399]]
      [] period = "weekly" -> [ok |-> TRUE, at |-> [d |-> date_key + 6, s |-> 86399]]
      [] period = "monthly" -> [ok |-> FALSE, at |-> StartOfDay(date_key)]
      [] OTHER -> [ok |-> TRUE,
                   at |-> StartOfDay(DateOf(Civil(date_key).year + 1, 1, 1))]

\* RevenueAnalysis(...) of lines 430-437; average_order_value is the
\* quotient total_revenue / sales_count, kept as its two terms
Summary(period, data) ==
    [period |-> period,
     total_revenue |-> data.total_revenue,
     total_sales |-> data.total_sales,
     average_order_value |->
         IF data.sales_count > 0
         THEN [num |-> data.total_revenue, den |-> data.sales_count]
         ELSE [num |-> 0, den |-> 1],
     start_date |-> StartOfDay(data.key),
     end_date |-> PeriodEnd(period, data.key).at]

\* sorted(result, key=lambda x: x.start_date): stable, ascending
RECURSIVE InsertSorted(_, _)
InsertSorted(sorted, x) ==
    IF sorted = <<>> THEN <<x>>
    ELSE IF DtLeq(sorted[Len(sorted)].start_date, x.start_date)
         THEN Append(sorted, x)
         ELSE Append(InsertSorted(SubSeq(sorted, 1, Len(sorted) - 1), x),
                     sorted[Len(sorted)])

RECURSIVE SortedByStart(_)
SortedByStart(result) ==
    IF result = <<>> THEN <<>>
    ELSE InsertSorted(SortedByStart(SubSeq(result, 1, Len(result) - 1)),
                      result[Len(result)])

get_revenue_analysis(period, start_date, end_date, category_id, platform, now) ==
    /\ LET rows == RevenueQuery(products, sales,
                                StartOrDefault(start_date, now),
                                EndOrDefault(end_date, now),
                                category_id, platform)
           grouped == GroupSales(rows, period, <<>>)
           raised == \E i \in 1..Len(grouped) : ~PeriodEnd(period, grouped[i].key).ok
           args == [period |-> period, start_date |-> start_date,
                    end_date |-> end_date, category_id |-> category_id,
                    platform |-> platform, now |-> now]
       IN  resp' = IF raised
                   THEN [op |-> "get_revenue_analysis", status |-> 500,
                         req |-> args, body |-> <<>>]
                   ELSE [op |-> "get_revenue_analysis", status |-> 200,
                         req |-> args,
                         body |-> SortedByStart(
                             [i \in 1..Len(grouped) |-> Summary(period, grouped[i])])]
    /\ UNCHANGED <<tables, reqs>>

\* ------------------------------------------- reporting over recorded sales
MaxRevSales == 2

\* 2024-02-27 Tue 10:00:00, 2024-02-29 Thu 23:59:59 (one week, Monday
\* 2024-02-26); 2024-12-31 Tue 23:59:59, 2025-01-01 Wed 00:00:00 (one week,
\* Monday 2024-12-30, two months, two years)
RevDates ==
    {[d |-> 19780, s |-> 36000], [d |-> 19782, s |-> 86399],
     [d |-> 20088, s |-> 86399], [d |-> 20089, s |-> 0]}

RevSaleCreates ==
    [product_id : {1}, quantity : {2}, unit_price : UnitPrices,
     sale_date : RevDates, platform : {"Amazon"}]
    \cup
    [product_id : {2}, quantity : {3}, unit_price : UnitPrices,
     sale_date : RevDates, platform : {"Amazon", "Walmart"}]

RevSales == {SaleRow(sale) : sale \in RevSaleCreates}

RevStarts == {<<>>, <<[d |-> 19780, s |-> 36000]>>}
RevEnds == {<<>>, <<[d |-> 19782, s |-> 86399]>>, <<[d |-> 19700, s |-> 0]>>}
RevCategoryIds == {<<>>, <<0>>, <<1>>}
RevPlatformFilters == {<<>>, <<"Amazon">>}
Clock == {[d |-> 20089, s |-> 43200]}

\* the tables after two categories, one product in each, and some sales;
\* a read leaves the tables as they are, so one request in each behaviour
\* reaches every result
InitRev ==
    /\ categories = <<"Electronics", "Books">>
    /\ products = <<[sku |-> "X-1", category_id |-> 1, platform |-> "Amazon"],
                    [sku |-> "X-2", category_id |-> 2, platform |-> "Walmart"]>>
    /\ inventory = <<[product_id |-> 1, quantity |-> DefaultInitialStock,
                      low_stock_threshold |-> DefaultLowStockThreshold],
                     [product_id |-> 2, quantity |-> DefaultInitialStock,
                      low_stock_threshold |-> DefaultLowStockThreshold]>>
    /\ \E n \in 0..MaxRevSales : sales \in [1..n -> RevSales]
    /\ resp = NoRequest
    /\ reqs = <<>>

NextRev ==
    /\ resp = NoRequest
    /\ \E period \in Periods, start_date \in RevStarts, end_date \in RevEnds,
          category_id \in RevCategoryIds, platform \in RevPlatformFilters,
          now \in Clock :
           get_revenue_analysis(period, start_date, end_date, category_id, platform, now)

SpecRev == InitRev /\ [][NextRev]_vars

\* ---------------------------------------------------------------- get_sales
\* limit: int = Query(100, le=1000) ; offset: int = Query(0, ge=0)
DefaultLimit == 100
MaxLimit == 1000
DefaultOffset == 0

\* ids of db.query(Sale).join(Product) with the filters of lines 353-362;
\* "if product_id:", "if category_id:" and "if platform:" take the filter
\* only when the value is truthy
SalesQuery(prods, rows, start_date, end_date, product_id, category_id, platform) ==
    {i \in 1..Len(rows) :
        /\ ProductById(prods, rows[i].product_id)
        /\ start_date # <<>> => DtLeq(start_date[1], rows[i].sale_date)
        /\ end_date # <<>> => DtLeq(rows[i].sale_date, end_date[1])
        /\ product_id # <<>> /\ product_id[1] # 0 =>
               rows[i].product_id = product_id[1]
        /\ category_id # <<>> /\ category_id[1] # 0 =>
               prods[rows[i].product_id].category_id = category_id[1]
        /\ platform # <<>> /\ platform[1] # "" =>
               rows[i].platform = platform[1]}

\* the orders .order_by(Sale.sale_date.desc()) may return the ids in: the
\* store leaves the order of rows with equal sale_date open
DescOrders(rows, ids) ==
    {ord \in [1..Cardinality(ids) -> ids] :
        /\ \A k, l \in 1..Cardinality(ids) : k # l => ord[k] # ord[l]
        /\ \A k \in 1..(Cardinality(ids) - 1) :
               DtLeq(rows[ord[k + 1]].sale_date, rows[ord[k]].sale_date)}

\* .offset(offset).limit(limit)
Page(ord, offset, limit) ==
    SubSeq(ord, offset + 1,
           IF offset + limit < Len(ord) THEN offset + limit ELSE Len(ord))

\* the request is refused with 422 when limit > 1000 or offset < 0; a
\* negative limit reaches the store, which refuses the LIMIT clause
get_sales(start_date, end_date, product_id, category_id, platform, limit, offset) ==
    /\ LET lim == OrDefault(limit, DefaultLimit)
           off == OrDefault(offset, DefaultOffset)
           ids == SalesQuery(products, sales, start_date, end_date,
                             product_id, category_id, platform)
           args == [start_date |-> start_date, end_date |-> end_date,
                    product_id |-> product_id, category_id |-> category_id,
                    platform |-> platform, limit |-> limit, offset |-> offset]
       IN  IF lim > MaxLimit \/ off < 0
           THEN resp' = [op |-> "get_sales", status |-> 422, req |-> args,
                         body |-> <<>>]
           ELSE IF lim < 0
           THEN resp' = [op |-> "get_sales", status |-> 500, req |-> args,
                         body |-> <<>>]
           ELSE \E ord \in DescOrders(sales, ids) :
                    resp' = [op |-> "get_sales", status |-> 200, req |-> args,
                             body |-> Page(ord, off, lim)]
    /\ UNCHANGED <<tables, reqs>>

\* ---------------------------------------------- listing over recorded sales
MaxListSales == 2

ListDates ==
    {[d |-> 19780, s |-> 36000], [d |-> 19782, s |-> 86399], [d |-> 20089, s |-> 0]}

ListSaleCreates ==
    [product_id : {1}, quantity : {2}, unit_price : UnitPrices,
     sale_date : ListDates, platform : {"Amazon"}]
    \cup
    [product_id : {2}, quantity : {3}, unit_price : UnitPrices,
     sale_date : ListDates, platform : {"Walmart"}]

ListSales == {SaleRow(sale) : sale \in ListSaleCreates}

ListStarts == {<<>>, <<[d |-> 19782, s |-> 86399]>>}
ListEnds == {<<>>, <<[d |-> 19782, s |-> 86399]>>}
ListProductIds == {<<>>, <<0>>, <<2>>}
ListCategoryIds == {<<>>, <<1>>}
ListPlatforms == {<<>>, <<"Walmart">>}
ListLimits == {<<>>, <<1>>, <<2>>, <<1001>>, <<-1>>}
ListOffsets == {<<>>, <<1>>, <<-1>>}

\* the tables after two categories, one product in each, and some sales;
\* one request in each behaviour, as for InitRev
InitList ==
    /\ categories = <<"Electronics", "Books">>
    /\ products = <<[sku |-> "X-1", category_id |-> 1, platform |-> "Amazon"],
                    [sku |-> "X-2", category_id |-> 2, platform |-> "Walmart"]>>
    /\ inventory = <<[product_id |-> 1, quantity |-> DefaultInitialStock,
                      low_stock_threshold |-> DefaultLowStockThreshold],
                     [product_id |-> 2, quantity |-> DefaultInitialStock,
                      low_stock_threshold |-> DefaultLowStockThreshold]>>
    /\ \E n \in 0..MaxListSales : sales \in [1..n -> ListSales]
    /\ resp = NoRequest
    /\ reqs = <<>>

NextList ==
    /\ resp = NoRequest
    /\ \E start_date \in ListStarts, end_date \in ListEnds,
          product_id \in ListProductIds, category_id \in ListCategoryIds,
          platform \in ListPlatforms, limit \in ListLimits, offset \in ListOffsets :
           get_sales(start_date, end_date, product_id, category_id, platform,
                     limit, offset)

SpecList == InitList /\ [][NextList]_vars

\* ------------------------------------------------------------------ claims
Max(a, b) == IF a >= b THEN a ELSE b

\* the step is the handling of one request by the named handler
Handled(op) == resp'.op = op /\ resp' # resp

\* C1: every Inventory row has quantity >= 0 in every reachable state.
C1_QuantityNonNegative ==
    \A i \in 1..Len(inventory) : inventory[i].quantity >= 0

\* C2: a successful create_sale of quantity q against stock s leaves the
\* product's Inventory quantity at max(0, s - q) and records the sale; a
\* sale against an existing product is never turned down by the handler
\* (the only other outcome is a failed commit).
C2_SaleDecrement ==
    [][Handled("create_sale") =>
         LET sale == resp'.req
             r == InventoryFirst(inventory, sale.product_id)
         IN  /\ resp'.status = 200 =>
                   /\ sales' = Append(sales, SaleRow(sale))
                   /\ r # 0 => inventory'[r].quantity =
                                   Max(0, inventory[r].quantity - sale.quantity)
             /\ ProductById(products, sale.product_id) => resp'.status \in {200, 500}
      ]_vars

\* a sale of a positive quantity was recorded and left the stock at zero
C2_Witness ==
    /\ resp.op = "create_sale" /\ resp.status = 200
    /\ resp.req.quantity > 0
    /\ sales[Len(sales)] = SaleRow(resp.req)
    /\ InventoryFirst(inventory, resp.req.product_id) # 0
    /\ inventory[InventoryFirst(inventory, resp.req.product_id)].quantity = 0

\* C3: every Product has exactly one Inventory row in every reachable state.
C3_NoOrphanProduct ==
    \A p \in 1..Len(products) : Cardinality(InventoryRows(inventory, p)) = 1

\* C4: right after a successful create_product exactly one Inventory row
\* exists for the new product, with quantity = initial_stock (0 when left
\* out) and low_stock_threshold = the supplied value (10 when left out).
C4_InventoryAfterCreate ==
    (resp.op = "create_product" /\ resp.status = 200) =>
        /\ ProductById(products, resp.id)
        /\ Cardinality(InventoryRows(inventory, resp.id)) = 1
        /\ \A r \in InventoryRows(inventory, resp.id) :
               /\ inventory[r].quantity =
                      (IF resp.req.initial_stock = <<>> THEN 0
                       ELSE resp.req.initial_stock[1])
               /\ inventory[r].low_stock_threshold =
                      (IF resp.req.low_stock_threshold = <<>> THEN 10
                       ELSE resp.req.low_stock_threshold[1])

\* a product was created with a supplied stock and the default threshold
C4_Witness ==
    /\ resp.op = "create_product" /\ resp.status = 200
    /\ resp.req.initial_stock = <<3>>
    /\ resp.req.low_stock_threshold = <<>>
    /\ InventoryRows(inventory, resp.id) # {}

\* some Product has the sku
SkuTaken(sku) == \E p \in 1..Len(products) : products[p].sku = sku

\* C5 as stated: create_product with an sku some Product already has fails
\* with 400 and leaves all four tables unchanged.
C5_DuplicateSkuConflict ==
    [][(Handled("create_product") /\ SkuTaken(resp'.req.sku)) =>
           (resp'.status = 400 /\ tables' = tables)]_vars

\* C5 amended: create_product with an sku some Product already has fails and
\* leaves all four tables unchanged; the failure is 400 when category_id
\* resolves to a Category and 404 when it does not.
C5_DuplicateSkuRejected ==
    [][(Handled("create_product") /\ SkuTaken(resp'.req.sku)) =>
           /\ tables' = tables
           /\ resp'.status =
                  (IF CategoryById(categories, resp'.req.category_id)
                   THEN 400 ELSE 404)]_vars

\* a create_product was refused with 400 for an sku that is in the table
C5_Witness ==
    /\ resp.op = "create_product" /\ resp.status = 400
    /\ SkuTaken(resp.req.sku)

\* C6: no two Products share an sku, also when two create_product requests
\* with the same sku both pass the existence check before either inserts.
C6_UniqueSku ==
    \A i, j \in 1..Len(products) :
        i # j => products[i].sku # products[j].sku

\* both requests passed the sku check with the same new sku; one inserted
\* its Product and the other's insert was refused by the unique index
C6_Witness ==
    \E i, j \in 1..NumReq :
        /\ i # j
        /\ reqs[i].op = "create_product" /\ reqs[j].op = "create_product"
        /\ reqs[i].req.sku = reqs[j].req.sku
        /\ reqs[i].pc = "done" /\ reqs[i].status = 200
        /\ reqs[j].pc = "done" /\ reqs[j].status = 500
        /\ reqs[j].detail = "IntegrityError" /\ reqs[j].id = 0

\* the stock after a sale of q1 and then a sale of q2, from stock s
Serial(s, q1, q2) == Max(0, Max(0, s - q1) - q2)

\* C7: when two create_sale requests for the same product interleave from
\* stock s, the final quantity is what running them one after the other
\* gives (for the positive quantities stated here the two orders agree).
C7_NoLostDecrement ==
    \A i, j \in 1..NumReq :
        (/\ i # j
         /\ \A k \in 1..NumReq : k \in {i, j} \/ reqs[k].pc = "idle"
         /\ reqs[i].op = "create_sale" /\ reqs[j].op = "create_sale"
         /\ reqs[i].pc = "done" /\ reqs[i].status = 200
         /\ reqs[j].pc = "done" /\ reqs[j].status = 200
         /\ reqs[i].req.product_id = 1 /\ reqs[j].req.product_id = 1
         /\ reqs[i].req.quantity > 0 /\ reqs[j].req.quantity > 0)
        => inventory[1].quantity =
               Serial(InitStock, reqs[i].req.quantity, reqs[j].req.quantity)

\* C8: every Sale has total_amount = quantity * unit_price, and no step
\* changes or removes a Sale that exists.
SaleTotals ==
    \A i \in 1..Len(sales) :
        sales[i].total_amount = sales[i].quantity * sales[i].unit_price

SalesKept ==
    /\ Len(sales') >= Len(sales)
    /\ \A i \in 1..Len(sales) : sales'[i] = sales[i]

C8_SaleTotalImmutable == []SaleTotals /\ [][SalesKept]_vars

\* two sales are recorded, one of them with a negative quantity
C8_Witness ==
    /\ Len(sales) = 2
    /\ sales[1].quantity = -1
    /\ sales[2].quantity = 1

\* the sales a request's window and filters select: start <= sale_date <= end,
\* the product's category is category_id and the sale's platform is platform
\* whenever these are given
Selected(req) ==
    {i \in 1..Len(sales) :
        /\ DtLeq(StartOrDefault(req.start_date, req.now), sales[i].sale_date)
        /\ DtLeq(sales[i].sale_date, EndOrDefault(req.end_date, req.now))
        /\ req.category_id # <<>> =>
               products[sales[i].product_id].category_id = req.category_id[1]
        /\ req.platform # <<>> => sales[i].platform = req.platform[1]}

RECURSIVE SumAmounts(_)
SumAmounts(ids) ==
    IF ids = {} THEN 0
    ELSE LET i == CHOOSE j \in ids : TRUE
         IN  sales[i].total_amount + SumAmounts(ids \ {i})

RECURSIVE SumRevenue(_)
SumRevenue(body) ==
    IF body = <<>> THEN 0 ELSE Head(body).total_revenue + SumRevenue(Tail(body))

\* C9: for every granularity, window and filter, get_revenue_analysis
\* returns summaries whose total_revenue sums to the total_amount of the
\* selected sales.
C9_RevenueSum ==
    resp.op = "get_revenue_analysis" =>
        /\ resp.status = 200
        /\ SumRevenue(resp.body) = SumAmounts(Selected(resp.req))

\* the calendar date a bucket of the period must start on, for a sale date
Monday(date) == CHOOSE m \in (date - 6)..date : Weekday(m) = 0

BucketStart(period, date) ==
    CASE period = "daily" -> date
      [] period = "weekly" -> Monday(date)
      [] period = "monthly" ->
             CHOOSE f \in (date - 30)..date :
                 /\ Civil(f).day = 1
                 /\ Civil(f).month = Civil(date).month
      [] OTHER ->
             CHOOSE f \in (date - 365)..date :
                 /\ Civil(f).day = 1 /\ Civil(f).month = 1
                 /\ Civil(f).year = Civil(date).year

\* the rows the query of the request returns
Queried(req) ==
    RevenueQuery(products, sales, StartOrDefault(req.start_date, req.now),
                 EndOrDefault(req.end_date, req.now), req.category_id, req.platform)

RECURSIVE SumRows(_, _)
SumRows(rows, ids) ==
    IF ids = {} THEN 0
    ELSE LET i == CHOOSE j \in ids : TRUE
         IN  rows[i].total_amount + SumRows(rows, ids \ {i})

\* C10: the grouping key of every queried sale is its bucket start (its
\* date, the Monday of its week, the first of its month, January 1st of its
\* year); every summary returned starts at 00:00:00 of the bucket start of
\* a queried sale and holds the total of exactly the queried sales with that
\* bucket start; no two summaries share a start, so two sales of one week
\* are in one weekly bucket with the sum of both.
C10_BucketStart ==
    resp.op = "get_revenue_analysis" =>
        LET rows == Queried(resp.req)
            period == resp.req.period
            Start(i) == StartOfDay(BucketStart(period, rows[i].sale_date.d))
        IN  /\ \A i \in 1..Len(rows) :
                 BucketKey(period, rows[i].sale_date) =
                     BucketStart(period, rows[i].sale_date.d)
            /\ resp.status = 200 =>
                 /\ \A k \in 1..Len(resp.body) :
                      LET in == {i \in 1..Len(rows) :
                                    Start(i) = resp.body[k].start_date}
                      IN  /\ in # {}
                          /\ resp.body[k].total_revenue = SumRows(rows, in)
                 /\ \A k, l \in 1..Len(resp.body) :
                      k # l => resp.body[k].start_date # resp.body[l].start_date
                 /\ \A i \in 1..Len(rows) : \E k \in 1..Len(resp.body) :
                      resp.body[k].start_date = Start(i)

\* a Tuesday sale and a Thursday sale of the same week came back as one
\* weekly summary keyed to that week's Monday, 2024-02-26
C10_Witness ==
    /\ resp.op = "get_revenue_analysis" /\ resp.status = 200
    /\ resp.req.period = "weekly"
    /\ Len(sales) = 2
    /\ sales[1].sale_date.d = 19780 /\ sales[2].sale_date.d = 19782
    /\ Len(resp.body) = 1
    /\ resp.body[1].start_date = [d |-> 19779, s |-> 0]
    /\ resp.body[1].total_revenue = sales[1].total_amount + sales[2].total_amount

\* datetime < datetime
DtLess(a, b) == DtLeq(a, b) /\ a # b

\* the last second of the day before the date
SecondBefore(date) == [d |-> date - 1, s |-> 86399]

\* C11: for daily, weekly and annual every summary returned ends one second
\* before its start plus 1 day, 7 days and 1 year.
C11_BucketEnd ==
    (resp.op = "get_revenue_analysis" /\ resp.status = 200
        /\ resp.req.period \in {"daily", "weekly", "annual"}) =>
        \A k \in 1..Len(resp.body) :
            LET start == resp.body[k].start_date.d
            IN  resp.body[k].end_date =
                    CASE resp.req.period = "daily" -> SecondBefore(start + 1)
                      [] resp.req.period = "weekly" -> SecondBefore(start + 7)
                      [] OTHER -> SecondBefore(DateOf(Civil(start).year + 1,
                                                       Civil(start).month,
                                                       Civil(start).day))

\* the first day of the month after the month of the date
NextMonth(date) ==
    IF Civil(date).month = 12 THEN DateOf(Civil(date).year + 1, 1, 1)
    ELSE DateOf(Civil(date).year, Civil(date).month + 1, 1)

\* C12: for monthly, whenever a sale matches, a summary comes back for each
\* bucket and ends at 23:59:59 of the last day of the bucket's month.
C12_MonthlyEnd ==
    (resp.op = "get_revenue_analysis" /\ resp.req.period = "monthly"
        /\ Selected(resp.req) # {}) =>
        /\ resp.status = 200
        /\ Len(resp.body) >= 1
        /\ \A k \in 1..Len(resp.body) :
               resp.body[k].end_date =
                   SecondBefore(NextMonth(resp.body[k].start_date.d))

\* C13: get_revenue_analysis answers with exactly one summary for each
\* bucket that holds a selected sale and none for any other bucket, in
\* strictly ascending order of start; with no selected sale the answer is
\* the empty sequence and not an error.
C13_OneSummaryPerBucket ==
    resp.op = "get_revenue_analysis" =>
        /\ resp.status = 200
        /\ {resp.body[k].start_date : k \in 1..Len(resp.body)} =
               {StartOfDay(BucketStart(resp.req.period, sales[i].sale_date.d)) :
                    i \in Selected(resp.req)}
        /\ \A k \in 1..(Len(resp.body) - 1) :
               DtLess(resp.body[k].start_date, resp.body[k + 1].start_date)
        /\ Selected(resp.req) = {} => resp.body = <<>>

\* C14: create_sale with a product_id that no Product has answers 404 and
\* changes no table.
C14_SaleUnknownProduct ==
    [][(Handled("create_sale") /\ resp'.req.product_id \notin 1..Len(products)) =>
           (resp'.status = 404 /\ tables' = tables)]_vars

\* a create_sale was refused with 404 while a Product and its stock exist
C14_Witness ==
    /\ resp.op = "create_sale" /\ resp.status = 404
    /\ resp.req.product_id \notin 1..Len(products)
    /\ Len(products) = 1 /\ Len(inventory) = 1

\* the Inventory rows of a product
RowsOf(product_id) == {i \in 1..Len(inventory) : inventory[i].product_id = product_id}

\* C15: update_inventory sets the product's quantity to the supplied one
\* whatever it was, changes low_stock_threshold only when one is supplied,
\* leaves every other Inventory row and all Categories, Products and Sales
\* as they are, and answers 404 changing nothing when the product has no
\* Inventory row (a failed commit changes nothing either).
C15_UpdateInventoryFrame ==
    [][Handled("update_inventory") =>
         LET rows == RowsOf(resp'.product_id)
             u == resp'.req
         IN  /\ categories' = categories /\ products' = products /\ sales' = sales
             /\ Len(inventory') = Len(inventory)
             /\ \A i \in 1..Len(inventory) :
                    i \notin rows => inventory'[i] = inventory[i]
             /\ rows = {} => (resp'.status = 404 /\ inventory' = inventory)
             /\ rows # {} => resp'.status \in {200, 500}
             /\ resp'.status # 200 => inventory' = inventory
             /\ resp'.status = 200 =>
                    \A i \in rows :
                        /\ inventory'[i].product_id = inventory[i].product_id
                        /\ inventory'[i].quantity = u.quantity
                        /\ inventory'[i].low_stock_threshold =
                               (IF u.low_stock_threshold = <<>>
                                THEN inventory[i].low_stock_threshold
                                ELSE u.low_stock_threshold[1])
      ]_vars

\* an update without a threshold set the quantity of the second product and
\* kept the threshold 20 it was created with, next to another product's row
C15_Witness ==
    /\ resp.op = "update_inventory" /\ resp.status = 200
    /\ resp.product_id = 2
    /\ resp.req.low_stock_threshold = <<>>
    /\ Len(inventory) = 2
    /\ \E i \in RowsOf(2) :
           /\ inventory[i].quantity = resp.req.quantity
           /\ inventory[i].low_stock_threshold = 20

\* the sales that match a list request: inside the window and with the
\* product, category and platform the request names
Matching(req) ==
    {i \in 1..Len(sales) :
        /\ req.start_date # <<>> => DtLeq(req.start_date[1], sales[i].sale_date)
        /\ req.end_date # <<>> => DtLeq(sales[i].sale_date, req.end_date[1])
        /\ req.product_id # <<>> => sales[i].product_id = req.product_id[1]
        /\ req.category_id # <<>> =>
               products[sales[i].product_id].category_id = req.category_id[1]
        /\ req.platform # <<>> => sales[i].platform = req.platform[1]}

\* the limit and offset a list request asks for
AskedLimit(req) == IF req.limit = <<>> THEN 100 ELSE req.limit[1]
AskedOffset(req) == IF req.offset = <<>> THEN 0 ELSE req.offset[1]

\* C16: get_sales refuses a limit above 1000; for a limit in 0..1000 and an
\* offset >= 0 it returns the matching sales from newest to oldest without
\* the first offset of them, min(limit, matching - offset) records (none
\* when offset exceeds the matching ones).
C16_ListSales ==
    (resp.op = "get_sales" /\ AskedOffset(resp.req) >= 0
        /\ AskedLimit(resp.req) >= 0) =>
        IF AskedLimit(resp.req) > 1000 THEN resp.status # 200
        ELSE LET m == Matching(resp.req)
                 left == Max(0, Cardinality(m) - AskedOffset(resp.req))
                 n == IF AskedLimit(resp.req) < left THEN AskedLimit(resp.req)
                      ELSE left
             IN  /\ resp.status = 200
                 /\ Len(resp.body) = n
                 /\ \E ord \in [1..Cardinality(m) -> m] :
                        /\ \A k, l \in 1..Cardinality(m) : k # l => ord[k] # ord[l]
                        /\ \A k \in 1..(Cardinality(m) - 1) :
                               DtLeq(sales[ord[k + 1]].sale_date,
                                     sales[ord[k]].sale_date)
                        /\ \A k \in 1..n :
                               resp.body[k] = ord[AskedOffset(resp.req) + k]

\* C17: every Sale and every Inventory row references an existing Product,
\* every Product references an existing Category, and no Product has more
\* than one Inventory row.
C17_ReferentialIntegrity ==
    /\ \A i \in 1..Len(sales) : sales[i].product_id \in 1..Len(products)
    /\ \A i \in 1..Len(inventory) : inventory[i].product_id \in 1..Len(products)
    /\ \A p \in 1..Len(products) : products[p].category_id \in 1..Len(categories)
    /\ \A p \in 1..Len(products) : Cardinality(RowsOf(p)) <= 1

\* two Products with their Inventory rows and a Sale of each
C17_Witness ==
    /\ Len(products) = 2 /\ Len(inventory) = 2 /\ Len(sales) = 2
    /\ sales[1].product_id = 1 /\ sales[2].product_id = 2

====
